---- MODULE Spec2Model ----
(***************************************************************************)
(* The e-mail one-time-passcode flow of the GCC cost calculator            *)
(* (src/app.py): the /api/send-otp, /api/verify-otp, /api/check-           *)
(* verification and /calculate routes over the process-wide otp_storage    *)
(* dict and the visitor's Flask session.                                   *)
(*                                                                         *)
(* Text (e-mail addresses, organisation names, submitted codes) is a       *)
(* sequence of one-character strings, so that lower(), strip() and str()   *)
(* are computed.  Python dicts are functions whose DOMAIN is the key set.  *)
(* Time is in whole seconds.                                               *)
(***************************************************************************)
EXTENDS Integers, Sequences, FiniteSets, TLC

VARIABLES
    otp_storage,   \* app.py:54   otp_id -> {email, otp, organization, created_at, attempts}
    session,       \* the visitor's Flask session: otp_id, pending_email, verified_emails
    environ,       \* os.environ entries read by the mail configuration
    now,           \* datetime.now(), seconds
    ticks,         \* number of clock advances so far
    issued,        \* number of otp ids generated so far
    req,           \* the last request, as the handler reads it
    resp,          \* the response to it
    notifier,      \* the calls the last request made to mail providers, in order
    fn_send_otp_storage,
                   \* api/send-otp/__init__.py:14   email -> {otp, organization, attempts, timestamp}
    fn_verify_otp_storage,
                   \* api/verify-otp/__init__.py:7   email -> record; no code writes an entry
    user_visits,   \* visits.db, table user_visits: the rows, in order of id
    user_stats,    \* visits.db, table user_stats: user_id -> row
    threads,       \* request threads of the server: position in verify_otp and locals
    detached,      \* otp_data dicts deleted from otp_storage that a thread may still hold
    tally          \* per otp id: codes compared at app.py:951, Success answers returned

vars == <<otp_storage, session, environ, now, ticks, issued, req, resp,
          notifier, fn_send_otp_storage, fn_verify_otp_storage,
          user_visits, user_stats, threads, detached, tally>>

\* what the serverless functions and the threaded server add to the state
outside_app == <<fn_send_otp_storage, fn_verify_otp_storage, threads, detached, tally>>

\* the tables of visits.db
visits_db == <<user_visits, user_stats>>

-----------------------------------------------------------------------------
(* Bounds of the model *)

MaxIssued == 1     \* OTP ids that may be generated
MaxTicks == 1      \* clock advances

-----------------------------------------------------------------------------
(* Program constants *)

OTP_MIN == 100000            \* app.py:431  random.randint(100000, 999999)
OTP_MAX == 999999
OTP_TTL == 600               \* app.py:936  timedelta(minutes=10)
MAX_ATTEMPTS == 3            \* app.py:941, 966
VERIFIED_TTL == 86400        \* app.py:440  timedelta(hours=24)

-----------------------------------------------------------------------------
(* Python dict and str primitives *)

EmptyDict == <<>>

DictGet(d, k, default) == IF k \in DOMAIN d THEN d[k] ELSE default

DictSet(d, k, v) == [x \in DOMAIN d \cup {k} |-> IF x = k THEN v ELSE d[x]]

DictDel(d, k) == [x \in DOMAIN d \ {k} |-> d[x]]

UpperCase == <<"A","B","C","D","E","F","G","H","I","J","K","L","M",
               "N","O","P","Q","R","S","T","U","V","W","X","Y","Z">>

LowerCase == <<"a","b","c","d","e","f","g","h","i","j","k","l","m",
               "n","o","p","q","r","s","t","u","v","w","x","y","z">>

LowerChar(c) ==
    IF \E i \in DOMAIN UpperCase : UpperCase[i] = c
    THEN LowerCase[CHOOSE i \in DOMAIN UpperCase : UpperCase[i] = c]
    ELSE c

\* str.lower()
Lower(s) == [i \in DOMAIN s |-> LowerChar(s[i])]

IsSpace(c) == c \in {" ", "\t", "\n"}

RECURSIVE LStrip(_)
LStrip(s) == IF s # <<>> /\ IsSpace(Head(s)) THEN LStrip(Tail(s)) ELSE s

RECURSIVE RStrip(_)
RStrip(s) ==
    IF s # <<>> /\ IsSpace(s[Len(s)]) THEN RStrip(SubSeq(s, 1, Len(s) - 1)) ELSE s

\* str.strip()
Strip(s) == RStrip(LStrip(s))

Digit == <<"0","1","2","3","4","5","6","7","8","9">>

RECURSIVE Str(_)
\* str(n) of a non-negative int
Str(n) == IF n < 10 THEN <<Digit[n + 1]>> ELSE Append(Str(n \div 10), Digit[(n % 10) + 1])

-----------------------------------------------------------------------------
(* datetime.isoformat() / datetime.fromisoformat(): the session keeps      *)
(* verified_at as text, split into day and time-of-day fields              *)

\* isoformat(timespec='minutes'): the seconds are not written
isoformat_minutes(t) ==
    <<t \div 86400, (t % 86400) \div 3600, (t % 3600) \div 60, 0>>

isoformat(t) ==
    <<t \div 86400, (t % 86400) \div 3600, (t % 3600) \div 60, t % 60>>

fromisoformat(s) == s[1] * 86400 + s[2] * 3600 + s[3] * 60 + s[4]

-----------------------------------------------------------------------------
(* Mail delivery: send_email_sendgrid, send_email_smtp, send_email         *)

\* SENDGRID_CONFIG['api_key'] = os.environ.get('SENDGRID_API_KEY', '')
sendgrid_api_key(env) == DictGet(env, "SENDGRID_API_KEY", "")

\* sg : what the SendGrid API call does, [raises, status_code]
send_email_sendgrid(env, sg) ==
    IF sendgrid_api_key(env) = "" THEN FALSE
    ELSE IF sg.raises THEN FALSE
    ELSE sg.status_code \in {200, 202}

\* smtp : what the SMTP conversation does, [raises]
send_email_smtp(env, smtp) ==
    LET username == DictGet(env, "SMTP_USERNAME", "apikey")
        password == DictGet(env, "SMTP_PASSWORD", sendgrid_api_key(env))
    IN  IF username = "" \/ password = "" THEN TRUE      \* "demo mode"
        ELSE IF smtp.raises THEN FALSE
        ELSE TRUE

send_email(env, sg, smtp) ==
    IF send_email_sendgrid(env, sg) THEN TRUE ELSE send_email_smtp(env, smtp)

\* the call send_email_sendgrid makes to the SendGrid API (sg.send, 351-352):
\* none without an API key; the provider accepted the message when the call
\* returned 200 or 202
sendgrid_calls(env, sg) ==
    IF sendgrid_api_key(env) = "" THEN <<>>
    ELSE <<[provider |-> "sendgrid",
            accepted |-> ~sg.raises /\ sg.status_code \in {200, 202}]>>

\* the SMTP conversation of send_email_smtp (402-405): none in "demo mode"
smtp_calls(env, smtp) ==
    IF DictGet(env, "SMTP_USERNAME", "apikey") = ""
       \/ DictGet(env, "SMTP_PASSWORD", sendgrid_api_key(env)) = ""
    THEN <<>>
    ELSE <<[provider |-> "smtp", accepted |-> ~smtp.raises]>>

\* both providers called, whatever the first answered
send_email_calls_both(env, sg, smtp) ==
    sendgrid_calls(env, sg) \o smtp_calls(env, smtp)

\* the provider calls of one send_email, in order
send_email_calls(env, sg, smtp) ==
    IF send_email_sendgrid(env, sg) THEN sendgrid_calls(env, sg)
    ELSE sendgrid_calls(env, sg) \o smtp_calls(env, smtp)

-----------------------------------------------------------------------------
(* Verified-email registry kept in the session                             *)

\* the comparison with <= in place of <
verification_valid_inclusive(verified_at, t) == t - verified_at <= VERIFIED_TTL

\* datetime.now() - verified_at < timedelta(hours=24)
verification_valid(verified_at, t) == t - verified_at < VERIFIED_TTL

\* the registry not consulted
is_email_verified_unknown(sess, email, t) == [result |-> FALSE, session |-> sess]

\* the lookup without the del of a stale entry
is_email_verified_no_purge(sess, email, t) ==
    LET verified_emails == DictGet(sess, "verified_emails", EmptyDict) IN
    [result |-> /\ email \in DOMAIN verified_emails
                /\ t - fromisoformat(verified_emails[email].verified_at) < VERIFIED_TTL,
     session |-> sess]

\* returns the answer and the session as the call leaves it
is_email_verified(sess, email, t) ==
    LET verified_emails == DictGet(sess, "verified_emails", EmptyDict) IN
    IF email \in DOMAIN verified_emails
    THEN LET verified_at == fromisoformat(verified_emails[email].verified_at) IN
         IF verification_valid(verified_at, t)
         THEN [result |-> TRUE, session |-> sess]
         ELSE [result |-> FALSE,
               session |-> DictSet(sess, "verified_emails",
                                   DictDel(verified_emails, email))]
    ELSE [result |-> FALSE, session |-> sess]

\* verified_emails.setdefault(email, {...}): an entry already there is kept
add_verified_email_setdefault(sess, email, organization, t) ==
    LET verified_emails == DictGet(sess, "verified_emails", EmptyDict) IN
    IF email \in DOMAIN verified_emails THEN sess
    ELSE DictSet(sess, "verified_emails",
                 DictSet(verified_emails, email,
                         [organization |-> organization,
                          verified_at |-> <<t \div 86400, (t % 86400) \div 3600,
                                            (t % 3600) \div 60, t % 60>>]))

add_verified_email(sess, email, organization, t) ==
    LET verified_emails == DictGet(sess, "verified_emails", EmptyDict) IN
    DictSet(sess, "verified_emails",
            DictSet(verified_emails, email,
                    [organization |-> organization, verified_at |-> isoformat(t)]))

-----------------------------------------------------------------------------
(* Inputs *)

EmailU == <<"u","@","x",".","i","o">>
EmailV == <<"v","@","x",".","i","o">>

RawEmails == { <<>>, <<" ","U","@","X",".","i","o"," ">>, EmailV }

\* request bodies of /api/send-otp: e-mail and organization as typed
SendRequests ==
    { [email |-> <<" ","U","@","X",".","i","o"," ">>, organization |-> <<"A">>],
      [email |-> EmailV, organization |-> <<"B"," ">>],
      [email |-> <<>>, organization |-> <<"A">>],
      [email |-> EmailV, organization |-> <<" ">>] }

\* values random.randint(100000, 999999) may return
GenCodes == { OTP_MIN, OTP_MAX }

RawOtps == { <<>>, Str(OTP_MIN), <<" ">> \o Str(OTP_MAX), <<"1","2","3">> }

\* what the two providers do when called: the SendGrid API call and the
\* SMTP conversation
MailOutcomes ==
    { [sg |-> [raises |-> FALSE, status_code |-> 202], smtp |-> [raises |-> FALSE]],
      [sg |-> [raises |-> FALSE, status_code |-> 403], smtp |-> [raises |-> FALSE]],
      [sg |-> [raises |-> TRUE, status_code |-> 0], smtp |-> [raises |-> TRUE]] }

\* a deployment with the SendGrid key set (SMTP then defaults to it)
ConfiguredEnv == [SENDGRID_API_KEY |-> "SG.key"]

\* clock advances, in seconds
Deltas == { OTP_TTL, OTP_TTL + 1, VERIFIED_TTL - 1, VERIFIED_TTL }

StartTime == 86000

NoResp == [status |-> 0, body |-> EmptyDict]

-----------------------------------------------------------------------------
(* POST /api/send-otp *)

\* secrets.token_urlsafe(16): a token never handed out before
token_urlsafe(n) == n + 1

\* one record per e-mail: the new record replaces those of the same e-mail
store_otp_per_email(storage, otp_id, email, otp, organization, t) ==
    [x \in {i \in DOMAIN storage : storage[i].email # email} \cup {otp_id} |->
        IF x = otp_id
        THEN [email |-> email, otp |-> otp, organization |-> organization,
              created_at |-> t, attempts |-> 0]
        ELSE storage[x]]

\* otp_storage[otp_id] = {...}
store_otp(storage, otp_id, email, otp, organization, t) ==
    DictSet(storage, otp_id,
            [email |-> email, otp |-> otp, organization |-> organization,
             created_at |-> t, attempts |-> 0])

\* only session['pending_email'] = email
remember_pending_email(sess, otp_id, email) == DictSet(sess, "pending_email", email)

\* session['otp_id'] = otp_id; session['pending_email'] = email (set on both
\* branches of `if email_sent`)
remember_otp(sess, otp_id, email) ==
    DictSet(DictSet(sess, "otp_id", otp_id), "pending_email", email)

\* the answer that shows the code whatever send_email returned
issued_response_disclosing(email_sent, otp) ==
    [status |-> 200,
     body |-> [success |-> TRUE,
               message |-> IF email_sent
                           THEN "OTP sent successfully to your email"
                           ELSE "OTP generated (check console for development)",
               demo_otp |-> otp]]

\* the JSON answer after the record was stored
issued_response(email_sent, otp) ==
    IF email_sent
    THEN [status |-> 200,
          body |-> [success |-> TRUE,
                    message |-> "OTP sent successfully to your email"]]
    ELSE [status |-> 200,
          body |-> [success |-> TRUE,
                    message |-> "OTP generated (check console for development)",
                    demo_otp |-> otp]]

\* the handler, generating an id only while fewer than `limit` were generated
send_otp_bounded(limit, rawEmail, rawOrg, code, sg, smtp) ==
    \E email \in {Strip(Lower(rawEmail))}, organization \in {Strip(rawOrg)} :
    /\ req' = [op |-> "send_otp", email |-> email, organization |-> organization]
    /\ UNCHANGED <<environ, now, ticks, outside_app, visits_db>>
    /\ IF email = <<>> \/ organization = <<>>
       THEN /\ resp' = [status |-> 400,
                        body |-> [error |-> <<"Email and organization name are required">>]]
            /\ notifier' = <<>>
            /\ UNCHANGED <<otp_storage, session, issued>>
       ELSE \E chk \in {is_email_verified(session, email, now)} :
            IF chk.result
            THEN /\ resp' = [status |-> 200,
                             body |-> [already_verified |-> TRUE,
                                       message |-> "Email is already verified. Proceeding to calculation..."]]
                 /\ session' = chk.session
                 /\ notifier' = <<>>
                 /\ UNCHANGED <<otp_storage, issued>>
            ELSE /\ issued < limit
                 /\ \E otp \in {Str(code)}, otp_id \in {token_urlsafe(issued)} :
                    /\ issued' = issued + 1
                    /\ otp_storage' = store_otp(otp_storage, otp_id, email, otp,
                                                organization, now)
                    /\ session' = remember_otp(chk.session, otp_id, email)
                    /\ resp' = issued_response(send_email(environ, sg, smtp), otp)
                    /\ notifier' = send_email_calls(environ, sg, smtp)

send_otp(rawEmail, rawOrg, code, sg, smtp) ==
    send_otp_bounded(MaxIssued, rawEmail, rawOrg, code, sg, smtp)

-----------------------------------------------------------------------------
(* The serverless send-otp function (src/api/send-otp/__init__.py), with   *)
(* its own module-level otp_storage keyed by e-mail.  The function bodies  *)
(* are modelled as written; the module's imports are taken to resolve.     *)

IsLetter(c) == \E i \in DOMAIN LowerCase : LowerCase[i] = c \/ UpperCase[i] = c

IsDigit(c) == \E i \in DOMAIN Digit : Digit[i] = c

\* [a-zA-Z0-9._%+-]
LocalChar(c) == IsLetter(c) \/ IsDigit(c) \/ c \in {".", "_", "%", "+", "-"}

\* [a-zA-Z0-9.-]
DomainChar(c) == IsLetter(c) \/ IsDigit(c) \/ c \in {".", "-"}

\* re.match(r'^[a-zA-Z0-9._%+-]+@[a-zA-Z0-9.-]+\.[a-zA-Z]{2,}$', email):
\* at is the position of the "@", dot the position of the "." before the
\* final run of letters
is_valid_email(email) ==
    \E at \in DOMAIN email, dot \in DOMAIN email :
        /\ email[at] = "@"
        /\ email[dot] = "."
        /\ at >= 2
        /\ \A i \in 1..(at - 1) : LocalChar(email[i])
        /\ dot >= at + 2
        /\ \A i \in (at + 1)..(dot - 1) : DomainChar(email[i])
        /\ Len(email) >= dot + 2
        /\ \A i \in (dot + 1)..Len(email) : IsLetter(email[i])

\* email.split('@')[1] if '@' in email else ''
email_domain(email) ==
    IF \E i \in DOMAIN email : email[i] = "@"
    THEN LET first == CHOOSE i \in DOMAIN email :
                          email[i] = "@" /\ \A j \in 1..(i - 1) : email[j] # "@"
             rest == SubSeq(email, first + 1, Len(email))
             stop == IF \E i \in DOMAIN rest : rest[i] = "@"
                     THEN (CHOOSE i \in DOMAIN rest :
                               rest[i] = "@" /\ \A j \in 1..(i - 1) : rest[j] # "@") - 1
                     ELSE Len(rest)
         IN  SubSeq(rest, 1, stop)
    ELSE <<>>

personal_domains ==
    { <<"g","m","a","i","l",".","c","o","m">>,
      <<"g","o","o","g","l","e","m","a","i","l",".","c","o","m">>,
      <<"y","a","h","o","o",".","c","o","m">>,
      <<"y","m","a","i","l",".","c","o","m">>,
      <<"r","o","c","k","e","t","m","a","i","l",".","c","o","m">>,
      <<"h","o","t","m","a","i","l",".","c","o","m">>,
      <<"o","u","t","l","o","o","k",".","c","o","m">>,
      <<"l","i","v","e",".","c","o","m">>,
      <<"m","s","n",".","c","o","m">>,
      <<"a","o","l",".","c","o","m">>,
      <<"i","c","l","o","u","d",".","c","o","m">>,
      <<"m","e",".","c","o","m">>,
      <<"m","a","c",".","c","o","m">>,
      <<"p","r","o","t","o","n","m","a","i","l",".","c","o","m">>,
      <<"p","r","o","t","o","n",".","m","e">>,
      <<"z","o","h","o",".","c","o","m">>,
      <<"m","a","i","l",".","c","o","m">>,
      <<"e","m","a","i","l",".","c","o","m">>,
      <<"y","a","n","d","e","x",".","c","o","m">>,
      <<"y","a",".","r","u">>,
      <<"g","m","x",".","c","o","m">>,
      <<"g","m","x",".","n","e","t">>,
      <<"f","a","s","t","m","a","i","l",".","c","o","m">>,
      <<"t","u","t","a","n","o","t","a",".","c","o","m">>,
      <<"t","u","t","a",".","i","o">>,
      <<"h","e","y",".","c","o","m">>,
      <<"r","e","d","i","f","f","m","a","i","l",".","c","o","m">>,
      <<"i","n","d","i","a","t","i","m","e","s",".","c","o","m">>,
      <<"i","n","b","o","x",".","c","o","m">>,
      <<"h","u","s","h","m","a","i","l",".","c","o","m">>,
      <<"l","a","v","a","b","i","t",".","c","o","m">> }

is_personal_email(email) == email_domain(email) \in personal_domains

\* send_otp_email_smtp: "returned" or "raised", the latter when the SMTP
\* conversation fails (the except clause re-raises)
send_otp_email_smtp(env, smtp) ==
    IF DictGet(env, "SMTP_USERNAME", "apikey") = ""
       \/ DictGet(env, "SENDGRID_API_KEY", "") = ""
    THEN "returned"
    ELSE IF smtp.raises THEN "raised" ELSE "returned"

\* its SMTP conversation, when it has one
send_otp_email_smtp_calls(env, smtp) ==
    IF DictGet(env, "SMTP_USERNAME", "apikey") = ""
       \/ DictGet(env, "SENDGRID_API_KEY", "") = ""
    THEN <<>>
    ELSE <<[provider |-> "smtp", accepted |-> ~smtp.raises]>>

\* send_otp_email_sendgrid: the status code of the answer is only logged
send_otp_email_sendgrid(env, sg, smtp) ==
    IF DictGet(env, "SENDGRID_API_KEY", "") = ""
    THEN send_otp_email_smtp(env, smtp)
    ELSE IF sg.raises THEN send_otp_email_smtp(env, smtp)
    ELSE "returned"

send_otp_email_sendgrid_calls(env, sg, smtp) ==
    IF DictGet(env, "SENDGRID_API_KEY", "") = ""
    THEN send_otp_email_smtp_calls(env, smtp)
    ELSE IF sg.raises
    THEN <<[provider |-> "sendgrid", accepted |-> FALSE]>>
         \o send_otp_email_smtp_calls(env, smtp)
    ELSE <<[provider |-> "sendgrid", accepted |-> sg.status_code \in {200, 202}]>>

\* otp_storage[email] = {...} of the function
fn_store_otp(storage, email, otp, organization, t) ==
    DictSet(storage, email,
            [otp |-> otp, organization |-> organization, attempts |-> 0,
             timestamp |-> t])

\* main(req) of api/send-otp
send_otp_main(rawEmail, rawOrg, code, sg, smtp) ==
    \E email \in {Strip(Lower(rawEmail))}, organization \in {Strip(rawOrg)} :
    /\ req' = [op |-> "fn_send_otp", email |-> email, organization |-> organization]
    /\ UNCHANGED <<otp_storage, session, environ, now, ticks, issued,
                   fn_verify_otp_storage, visits_db, threads, detached, tally>>
    /\ IF email = <<>> \/ organization = <<>>
       THEN /\ resp' = [status |-> 400,
                        body |-> [error |-> <<"Email and organization are required">>]]
            /\ notifier' = <<>>
            /\ UNCHANGED fn_send_otp_storage
       ELSE IF ~is_valid_email(email)
       THEN /\ resp' = [status |-> 400,
                        body |-> [error |-> <<"Please enter a valid email address">>]]
            /\ notifier' = <<>>
            /\ UNCHANGED fn_send_otp_storage
       ELSE IF is_personal_email(email)
       THEN /\ resp' = [status |-> 400,
                        body |-> [error |-> <<"Please use your company/organization email address. Personal email addresses like Gmail, Yahoo, etc. are not allowed.">>]]
            /\ notifier' = <<>>
            /\ UNCHANGED fn_send_otp_storage
       ELSE /\ fn_send_otp_storage' =
                   fn_store_otp(fn_send_otp_storage, email, Str(code), organization, now)
            /\ notifier' = send_otp_email_sendgrid_calls(environ, sg, smtp)
            /\ resp' = IF send_otp_email_sendgrid(environ, sg, smtp) = "raised"
                       THEN [status |-> 500,
                             body |-> [error |-> <<"Failed to send OTP. Please try again.">>]]
                       ELSE [status |-> 200,
                             body |-> [message |-> "OTP sent successfully"]]

-----------------------------------------------------------------------------
(* The serverless verify-otp function (src/api/verify-otp/__init__.py).    *)
(* Its otp_storage is the dict of its own module: the send-otp function    *)
(* writes the dict of the send-otp module, and nothing adds an entry here. *)

\* time.time() - stored_data['timestamp'] > 600
FN_OTP_TTL == 600

\* stored_data['attempts'] >= 3
FN_MAX_ATTEMPTS == 3

\* main(req) of api/verify-otp after its required-field check: the store it
\* leaves and the response
verify_otp_main_checked(storage, email, otp, t) ==
    IF email \notin DOMAIN storage                  \* not otp_storage.get(email)
    THEN [storage |-> storage,
          resp |-> [status |-> 400,
                    body |-> [verified |-> FALSE,
                              error |-> <<"OTP not found or expired">>]]]
    ELSE
    LET stored_data == storage[email] IN
    IF t - stored_data.timestamp > FN_OTP_TTL
    THEN [storage |-> DictDel(storage, email),
          resp |-> [status |-> 400,
                    body |-> [verified |-> FALSE, error |-> <<"OTP expired">>]]]
    ELSE IF stored_data.otp = otp
    THEN [storage |-> DictDel(storage, email),
          resp |-> [status |-> 200,
                    body |-> [verified |-> TRUE,
                              message |-> "OTP verified successfully"]]]
    ELSE
    LET counted == [storage EXCEPT ![email].attempts = @ + 1] IN
    IF counted[email].attempts >= FN_MAX_ATTEMPTS
    THEN [storage |-> DictDel(counted, email),
          resp |-> [status |-> 400,
                    body |-> [verified |-> FALSE,
                              error |-> <<"Too many failed attempts">>]]]
    ELSE [storage |-> counted,
          resp |-> [status |-> 400,
                    body |-> [verified |-> FALSE, error |-> <<"Invalid OTP">>]]]

\* main(req) of api/verify-otp
verify_otp_main(rawEmail, rawOtp) ==
    \E email \in {Strip(Lower(rawEmail))}, otp \in {Strip(rawOtp)} :
    /\ req' = [op |-> "fn_verify_otp", email |-> email, otp |-> otp]
    /\ notifier' = <<>>
    /\ UNCHANGED <<otp_storage, session, environ, now, ticks, issued,
                   fn_send_otp_storage, visits_db, threads, detached, tally>>
    /\ IF email = <<>> \/ otp = <<>>
       THEN /\ resp' = [status |-> 400,
                        body |-> [error |-> <<"Email and OTP are required">>]]
            /\ UNCHANGED fn_verify_otp_storage
       ELSE \E out \in {verify_otp_main_checked(fn_verify_otp_storage, email, otp, now)} :
            /\ fn_verify_otp_storage' = out.storage
            /\ resp' = out.resp

-----
(* POST /api/verify-otp *)

\* the comparison with >= in place of >
otp_expired_inclusive(otp_data, t) == t - otp_data.created_at >= OTP_TTL

\* datetime.now() - otp_data['created_at'] > timedelta(minutes=10)
otp_expired(otp_data, t) == t - otp_data.created_at > OTP_TTL

\* the comparison with > in place of >=
attempts_exhausted_strict(otp_data) == otp_data.attempts > MAX_ATTEMPTS

\* otp_data['attempts'] >= 3
attempts_exhausted(otp_data) == otp_data.attempts >= MAX_ATTEMPTS

\* the attempt left uncounted
attempts_unchanged(storage, otp_id) == storage

\* otp_data['attempts'] += 1, on the dict held by otp_storage
increment_attempts(storage, otp_id) ==
    [storage EXCEPT ![otp_id].attempts = @ + 1]

\* the count taken as if the attempt were not yet counted
remaining_attempts_uncounted(otp_data) == MAX_ATTEMPTS + 1 - otp_data.attempts

\* remaining_attempts = 3 - otp_data['attempts']
remaining_attempts(otp_data) == MAX_ATTEMPTS - otp_data.attempts

\* otp_id = session.get('otp_id'): None when the session holds none
NoId == 0

\* the test without its second half: only `not otp_id`
otp_id_missing(storage, otp_id) == otp_id = NoId

\* not otp_id or otp_id not in otp_storage
otp_session_missing(storage, otp_id) ==
    otp_id = NoId \/ otp_id \notin DOMAIN storage

\* the record left in the store
otp_kept(storage, otp_id) == storage

\* del otp_storage[otp_id] after a successful verification
consume_otp(storage, otp_id) == DictDel(storage, otp_id)

\* except Exception: 'Internal server error', 500
internal_server_error ==
    [status |-> 500, body |-> [error |-> <<"Internal server error">>]]

\* the session after a successful verification
verified_session(sess, email, organization, t) ==
    DictDel(DictDel(add_verified_email(sess, email, organization, t),
                    "otp_id"), "pending_email")

\* the handler with the attempt ceiling tested before the age of the record
verify_otp_ceiling_first(storage, sess, email, otp, t) ==
    LET otp_id == DictGet(sess, "otp_id", NoId) IN
    IF otp_session_missing(storage, otp_id)
    THEN [storage |-> storage, session |-> sess,
          resp |-> [status |-> 200,
                    body |-> [verified |-> FALSE, error |-> <<"OTP session expired">>]]]
    ELSE IF otp_id \notin DOMAIN storage       \* otp_storage[otp_id] raises KeyError
    THEN [storage |-> storage, session |-> sess, resp |-> internal_server_error]
    ELSE
    LET otp_data == storage[otp_id] IN
    IF attempts_exhausted(otp_data)
    THEN [storage |-> DictDel(storage, otp_id), session |-> sess,
          resp |-> [status |-> 200,
                    body |-> [verified |-> FALSE, error |-> <<"Too many attempts">>]]]
    ELSE IF otp_expired(otp_data, t)
    THEN [storage |-> DictDel(storage, otp_id), session |-> sess,
          resp |-> [status |-> 200,
                    body |-> [verified |-> FALSE, error |-> <<"OTP expired">>]]]
    ELSE
    LET counted == increment_attempts(storage, otp_id) IN
    IF otp_data.email # email
    THEN [storage |-> counted, session |-> sess,
          resp |-> [status |-> 200,
                    body |-> [verified |-> FALSE, error |-> <<"Email mismatch">>]]]
    ELSE IF otp_data.otp = otp
    THEN [storage |-> consume_otp(counted, otp_id),
          session |-> verified_session(sess, email, otp_data.organization, t),
          resp |-> [status |-> 200,
                    body |-> [verified |-> TRUE,
                              message |-> "Email verified successfully"]]]
    ELSE [storage |-> counted, session |-> sess,
          resp |-> [status |-> 200,
                    body |-> [verified |-> FALSE,
                              error |-> <<"Invalid OTP. ",
                                          remaining_attempts(counted[otp_id]),
                                          " attempts remaining.">>]]]

\* the handler after its required-field check, on the normalised inputs:
\* the store, the session and the response it ends with
verify_otp_checked(storage, sess, email, otp, t) ==
    LET otp_id == DictGet(sess, "otp_id", NoId) IN
    IF otp_session_missing(storage, otp_id)
    THEN [storage |-> storage, session |-> sess,
          resp |-> [status |-> 200,
                    body |-> [verified |-> FALSE, error |-> <<"OTP session expired">>]]]
    ELSE IF otp_id \notin DOMAIN storage       \* otp_storage[otp_id] raises KeyError
    THEN [storage |-> storage, session |-> sess, resp |-> internal_server_error]
    ELSE
    LET otp_data == storage[otp_id] IN
    IF otp_expired(otp_data, t)
    THEN [storage |-> DictDel(storage, otp_id), session |-> sess,
          resp |-> [status |-> 200,
                    body |-> [verified |-> FALSE, error |-> <<"OTP expired">>]]]
    ELSE IF attempts_exhausted(otp_data)
    THEN [storage |-> DictDel(storage, otp_id), session |-> sess,
          resp |-> [status |-> 200,
                    body |-> [verified |-> FALSE, error |-> <<"Too many attempts">>]]]
    ELSE
    LET counted == increment_attempts(storage, otp_id) IN
    IF otp_data.email # email
    THEN [storage |-> counted, session |-> sess,
          resp |-> [status |-> 200,
                    body |-> [verified |-> FALSE, error |-> <<"Email mismatch">>]]]
    ELSE IF otp_data.otp = otp
    THEN [storage |-> consume_otp(counted, otp_id),
          session |-> verified_session(sess, email, otp_data.organization, t),
          resp |-> [status |-> 200,
                    body |-> [verified |-> TRUE,
                              message |-> "Email verified successfully"]]]
    ELSE [storage |-> counted, session |-> sess,
          resp |-> [status |-> 200,
                    body |-> [verified |-> FALSE,
                              error |-> <<"Invalid OTP. ",
                                          remaining_attempts(counted[otp_id]),
                                          " attempts remaining.">>]]]

verify_otp(rawEmail, rawOtp) ==
    \E email \in {Strip(Lower(rawEmail))}, otp \in {Strip(rawOtp)} :
    /\ req' = [op |-> "verify_otp", email |-> email, otp |-> otp]
    /\ notifier' = <<>>
    /\ UNCHANGED <<environ, now, ticks, issued, outside_app, visits_db>>
    /\ IF email = <<>> \/ otp = <<>>
       THEN /\ resp' = [status |-> 400,
                        body |-> [error |-> <<"Email and OTP are required">>]]
            /\ UNCHANGED <<otp_storage, session>>
       ELSE \E out \in {verify_otp_checked(otp_storage, session, email, otp, now)} :
            /\ otp_storage' = out.storage
            /\ session' = out.session
            /\ resp' = out.resp

-----
(* POST /api/check-verification *)

check_verification(rawEmail) ==
    \E email \in {Strip(Lower(rawEmail))} :
    /\ req' = [op |-> "check_verification", email |-> email]
    /\ notifier' = <<>>
    /\ UNCHANGED <<otp_storage, environ, now, ticks, issued, outside_app, visits_db>>
    /\ IF email = <<>>
       THEN /\ resp' = [status |-> 400, body |-> [error |-> <<"Email is required">>]]
            /\ UNCHANGED session
       ELSE \E chk \in {is_email_verified(session, email, now)} :
            /\ session' = chk.session
            /\ resp' = IF chk.result
                       THEN [status |-> 200,
                             body |-> [verified |-> TRUE,
                                       organization |->
                                           chk.session["verified_emails"][email].organization,
                                       message |-> "Email is already verified"]]
                       ELSE [status |-> 200,
                             body |-> [verified |-> FALSE,
                                       message |-> "Email verification required"]]

-----------------------------------------------------------------------------
(* The visits tracker: log_visit of app.py and of visits_tracker.py, on    *)
(* the tables of visits.db.  A row of user_visits is its id and user_id    *)
(* (the other columns are copied from user_data and read by no code        *)
(* modelled here).  The statements of one call run in one transaction: db  *)
(* is the committed content, work the content the connection sees.         *)

\* return None
NoVisit == 0

\* where a call may raise: one of its two statements, or the commit
DbFaults == { "none", "insert_user_visits", "upsert_user_stats", "commit" }

\* INSERT INTO user_visits (...) VALUES (...); cursor.lastrowid
insert_user_visits(visits, user_id) ==
    Append(visits, [id |-> Len(visits) + 1, user_id |-> user_id])

\* INSERT INTO user_stats ... ON CONFLICT(user_id) DO UPDATE SET ...
upsert_user_stats(stats, user_id, t) ==
    IF user_id \in DOMAIN stats
    THEN [stats EXCEPT ![user_id] =
             [@ EXCEPT !.visit_count = @ + 1,
                       !.total_calculations = @ + 1,
                       !.last_visit = t]]
    ELSE DictSet(stats, user_id,
                 [visit_count |-> 1, total_calculations |-> 1,
                  first_visit |-> t, last_visit |-> t])

\* the statements already run are kept
rollback_kept(db, work) == work

\* db.rollback()
rollback(db, work) == db

\* log_visit(user_data) of app.py: the tables and the value returned
log_visit_on(db, user_data, fault, t) ==
    LET user_id == DictGet(user_data, "user_id", <<>>) IN
    IF user_id = <<>>
    THEN [db |-> db, result |-> NoVisit]
    ELSE IF fault = "insert_user_visits"
    THEN [db |-> rollback(db, db), result |-> NoVisit]
    ELSE
    LET inserted == [db EXCEPT !.user_visits = insert_user_visits(@, user_id)]
        visit_id == inserted.user_visits[Len(inserted.user_visits)].id
    IN
    IF fault = "upsert_user_stats"
    THEN [db |-> rollback(db, inserted), result |-> NoVisit]
    ELSE
    LET counted == [inserted EXCEPT !.user_stats = upsert_user_stats(@, user_id, t)] IN
    IF fault = "commit"
    THEN [db |-> rollback(db, counted), result |-> NoVisit]
    ELSE [db |-> counted, result |-> visit_id]

\* log_visit(user_data) of visits_tracker.py
visits_tracker_log_visit_on(db, user_data, fault, t) ==
    LET user_id == DictGet(user_data, "user_id", <<>>) IN
    IF user_id = <<>>
    THEN [db |-> db, result |-> NoVisit]
    ELSE IF fault = "insert_user_visits"
    THEN [db |-> rollback(db, db), result |-> NoVisit]
    ELSE
    LET inserted == [db EXCEPT !.user_visits = insert_user_visits(@, user_id)]
        visit_id == inserted.user_visits[Len(inserted.user_visits)].id
    IN
    IF fault = "upsert_user_stats"
    THEN [db |-> rollback(db, inserted), result |-> NoVisit]
    ELSE
    LET counted == [inserted EXCEPT !.user_stats = upsert_user_stats(@, user_id, t)] IN
    IF fault = "commit"
    THEN [db |-> rollback(db, counted), result |-> NoVisit]
    ELSE [db |-> counted, result |-> visit_id]

\* visits.db as the calls find it
visits_db_now == [user_visits |-> user_visits, user_stats |-> user_stats]

-----------------------------------------------------------------------------
(* POST /calculate: the part that consults the registry.  The results      *)
(* carry verified_email and organization; a key is left out of the body    *)
(* where the code stores None.  With a verified e-mail the visit is logged *)
(* under it (app.py:1109-1123); what log_visit returns is only printed.    *)

calculate ==
    LET has_pending == "pending_email" \in DOMAIN session
                       /\ session["pending_email"] # <<>>
    IN
    \E chk \in {IF has_pending
                THEN is_email_verified(session, session["pending_email"], now)
                ELSE [result |-> FALSE, session |-> session]} :
    /\ req' = [op |-> "calculate"]
    /\ notifier' = <<>>
    /\ UNCHANGED <<otp_storage, environ, now, ticks, issued, outside_app>>
    /\ session' = chk.session
    /\ IF has_pending /\ chk.result
       THEN \E fault \in DbFaults :
            \E logged \in {log_visit_on(visits_db_now,
                                        [user_id |-> session["pending_email"]],
                                        fault, now)} :
                /\ user_visits' = logged.db.user_visits
                /\ user_stats' = logged.db.user_stats
       ELSE UNCHANGED visits_db
    /\ resp' = IF has_pending /\ chk.result
               THEN [status |-> 200,
                     body |-> [verified_email |-> session["pending_email"],
                               organization |->
                                   chk.session["verified_emails"][session["pending_email"]].organization]]
               ELSE [status |-> 200, body |-> EmptyDict]

-----
(* The clock.  Every comparison of the program is between now and a stored *)
(* timestamp, so time is let pass only once a timestamp is stored: until   *)
(* then the clock reads StartTime.                                         *)

Tick(d) ==
    /\ ticks < MaxTicks
    /\ otp_storage # EmptyDict \/ DictGet(session, "verified_emails", EmptyDict) # EmptyDict
    /\ now' = now + d
    /\ ticks' = ticks + 1
    /\ req' = [op |-> "tick"]
    /\ resp' = NoResp
    /\ notifier' = <<>>
    /\ UNCHANGED <<otp_storage, session, environ, issued, outside_app, visits_db>>

-----------------------------------------------------------------------------

ThreadIds == {1, 2}

\* a thread that is handling no request
IdleThread ==
    [pc |-> "idle", email |-> <<>>, otp |-> <<>>, sess |-> EmptyDict,
     modified |-> FALSE, otp_id |-> NoId, tmp |-> 0, resp |-> NoResp, served |-> 0]

Init ==
    /\ otp_storage = EmptyDict
    /\ session = EmptyDict
    /\ environ = ConfiguredEnv
    /\ now = StartTime
    /\ ticks = 0
    /\ issued = 0
    /\ req = [op |-> "start"]
    /\ resp = NoResp
    /\ notifier = <<>>
    /\ fn_send_otp_storage = EmptyDict
    /\ fn_verify_otp_storage = EmptyDict
    /\ user_visits = <<>>
    /\ user_stats = EmptyDict
    /\ threads = [t \in ThreadIds |-> IdleThread]
    /\ detached = EmptyDict
    /\ tally = EmptyDict

Next ==
    \/ \E r \in SendRequests, c \in GenCodes, m \in MailOutcomes :
          send_otp(r.email, r.organization, c, m.sg, m.smtp)
    \/ \E e \in RawEmails, o \in RawOtps : verify_otp(e, o)
    \/ \E e \in RawEmails : check_verification(e)
    \/ calculate
    \/ \E d \in Deltas : Tick(d)

Spec == Init /\ [][Next]_vars

-----------------------------------------------------------------------------
(* The verified-email registry on its own: add_verified_email and          *)
(* is_email_verified applied to a session at any time and in any order,    *)
(* is_email_verified through the /api/check-verification route.            *)

Emails == { EmailU, EmailV }

Orgs == { <<"A">>, <<"B">> }

record_verified(email, organization) ==
    /\ session' = add_verified_email(session, email, organization, now)
    /\ req' = [op |-> "add_verified_email", email |-> email,
                organization |-> organization]
    /\ resp' = NoResp
    /\ notifier' = <<>>
    /\ UNCHANGED <<otp_storage, environ, now, ticks, issued, outside_app, visits_db>>

NextRegistry ==
    \/ \E e \in Emails, o \in Orgs : record_verified(e, o)
    \/ \E e \in RawEmails : check_verification(e)
    \/ \E d \in Deltas : Tick(d)

SpecRegistry == Init /\ [][NextRegistry]_vars

-----------------------------------------------------------------------------
(* Issuance on its own: the /api/send-otp route and the serverless         *)
(* send-otp function under each mail configuration, with addresses the     *)
(* validation tells apart.                                                 *)

EmailInvalid == <<"n","o","t","-","a","n","-","e","m","a","i","l">>

EmailPersonal == <<"u","s","e","r","@","g","m","a","i","l",".","c","o","m">>

EmailCompany == <<"u","s","e","r","@","a","c","m","e","-","c","o","r","p",".","c","o","m">>

IssueRequests ==
    { [email |-> EmailInvalid, organization |-> <<"A">>],
      [email |-> EmailPersonal, organization |-> <<"A">>],
      [email |-> EmailCompany, organization |-> <<"A">>],
      [email |-> <<" ">> \o EmailCompany, organization |-> <<"B">>] }

\* no mail variable set at all
UnconfiguredEnv == EmptyDict

\* SMTP credentials of another relay, no SendGrid key
SmtpOnlyEnv == [SMTP_USERNAME |-> "mailer", SMTP_PASSWORD |-> "secret"]

Envs == { ConfiguredEnv, UnconfiguredEnv, SmtpOnlyEnv }

InitIssue ==
    /\ otp_storage = EmptyDict
    /\ session = EmptyDict
    /\ environ \in Envs
    /\ now = StartTime
    /\ ticks = 0
    /\ issued = 0
    /\ req = [op |-> "start"]
    /\ resp = NoResp
    /\ notifier = <<>>
    /\ fn_send_otp_storage = EmptyDict
    /\ fn_verify_otp_storage = EmptyDict
    /\ user_visits = <<>>
    /\ user_stats = EmptyDict
    /\ threads = [t \in ThreadIds |-> IdleThread]
    /\ detached = EmptyDict
    /\ tally = EmptyDict

NextIssue ==
    \/ \E r \in IssueRequests, c \in GenCodes, m \in MailOutcomes :
          send_otp(r.email, r.organization, c, m.sg, m.smtp)
    \/ \E r \in IssueRequests, c \in GenCodes, m \in MailOutcomes :
          send_otp_main(r.email, r.organization, c, m.sg, m.smtp)

SpecIssue == InitIssue /\ [][NextIssue]_vars

-----------------------------------------------------------------------------
(* /api/verify-otp on the threaded server (app.run, app.py:1245): each     *)
(* request runs verify_otp in a thread of its own, over the one            *)
(* otp_storage dict and on the copy of the session its cookie carried.     *)
(* A step is one statement of the handler; otp_data['attempts'] += 1 is    *)
(* two, the read and the write.  otp_data is a reference: a thread that    *)
(* holds it reads and writes the dict also after it was deleted from       *)
(* otp_storage.                                                            *)

MaxRequests == 2    \* requests one thread may serve

\* the dict a thread's otp_data refers to
otp_data_of(otp_id) ==
    IF otp_id \in DOMAIN otp_storage THEN otp_storage[otp_id] ELSE detached[otp_id]

NoTally == [compared |-> 0, succeeded |-> 0]

\* what a step of a request thread never writes
thread_frame == <<session, environ, now, ticks, issued, req, resp, notifier,
                  fn_send_otp_storage, fn_verify_otp_storage, visits_db>>

\* return jsonify(...): the response is decided, the thread has yet to send it
returning(th, r) == [th EXCEPT !.pc = "respond", !.resp = r]

\* request.get_json() and the required-field check, app.py:922-927
verify_otp_begin(t, rawEmail, rawOtp) ==
    \E email \in {Strip(Lower(rawEmail))}, otp \in {Strip(rawOtp)} :
    /\ threads[t].pc = "idle"
    /\ threads[t].served < MaxRequests
    /\ threads' = [threads EXCEPT ![t] =
          IF email = <<>> \/ otp = <<>>
          THEN [@ EXCEPT !.pc = "respond", !.email = email, !.otp = otp,
                         !.sess = session,
                         !.resp = [status |-> 400,
                                   body |-> [error |-> <<"Email and OTP are required">>]]]
          ELSE [@ EXCEPT !.pc = "lookup", !.email = email, !.otp = otp,
                         !.sess = session]]
    /\ UNCHANGED <<otp_storage, detached, tally>>
    /\ UNCHANGED thread_frame

\* app.py:929-931
verify_otp_lookup(t) ==
    /\ threads[t].pc = "lookup"
    /\ \E otp_id \in {DictGet(threads[t].sess, "otp_id", NoId)} :
         threads' = [threads EXCEPT ![t] =
            IF otp_session_missing(otp_storage, otp_id)
            THEN returning(@, [status |-> 200,
                               body |-> [verified |-> FALSE,
                                         error |-> <<"OTP session expired">>]])
            ELSE [@ EXCEPT !.pc = "load", !.otp_id = otp_id]]
    /\ UNCHANGED <<otp_storage, detached, tally>>
    /\ UNCHANGED thread_frame

\* app.py:933  otp_data = otp_storage[otp_id], KeyError when the key is gone
verify_otp_load(t) ==
    /\ threads[t].pc = "load"
    /\ threads' = [threads EXCEPT ![t] =
          IF threads[t].otp_id \in DOMAIN otp_storage
          THEN [@ EXCEPT !.pc = "expiry"]
          ELSE returning(@, internal_server_error)]
    /\ UNCHANGED <<otp_storage, detached, tally>>
    /\ UNCHANGED thread_frame

\* del otp_storage[otp_id] by thread t, answering r; KeyError when the key
\* is gone
thread_del(t, r) ==
    LET otp_id == threads[t].otp_id IN
    IF otp_id \in DOMAIN otp_storage
    THEN /\ otp_storage' = DictDel(otp_storage, otp_id)
         /\ detached' = DictSet(detached, otp_id, otp_storage[otp_id])
         /\ threads' = [threads EXCEPT ![t] = returning(@, r)]
    ELSE /\ threads' = [threads EXCEPT ![t] = returning(@, internal_server_error)]
         /\ UNCHANGED <<otp_storage, detached>>

\* app.py:936-938
verify_otp_expiry(t) ==
    /\ threads[t].pc = "expiry"
    /\ IF otp_expired(otp_data_of(threads[t].otp_id), now)
       THEN thread_del(t, [status |-> 200,
                           body |-> [verified |-> FALSE, error |-> <<"OTP expired">>]])
       ELSE /\ threads' = [threads EXCEPT ![t].pc = "ceiling"]
            /\ UNCHANGED <<otp_storage, detached>>
    /\ UNCHANGED tally
    /\ UNCHANGED thread_frame

\* app.py:941-943
verify_otp_ceiling(t) ==
    /\ threads[t].pc = "ceiling"
    /\ IF attempts_exhausted(otp_data_of(threads[t].otp_id))
       THEN thread_del(t, [status |-> 200,
                           body |-> [verified |-> FALSE,
                                     error |-> <<"Too many attempts">>]])
       ELSE /\ threads' = [threads EXCEPT ![t].pc = "inc_read"]
            /\ UNCHANGED <<otp_storage, detached>>
    /\ UNCHANGED tally
    /\ UNCHANGED thread_frame

\* app.py:946, the read of otp_data['attempts']
verify_otp_inc_read(t) ==
    /\ threads[t].pc = "inc_read"
    /\ threads' = [threads EXCEPT ![t].pc = "inc_write",
                                  ![t].tmp = otp_data_of(threads[t].otp_id).attempts]
    /\ UNCHANGED <<otp_storage, detached, tally>>
    /\ UNCHANGED thread_frame

\* app.py:946, the store of the value read plus one
verify_otp_inc_write(t) ==
    /\ threads[t].pc = "inc_write"
    /\ \E otp_id \in {threads[t].otp_id} :
         IF otp_id \in DOMAIN otp_storage
         THEN /\ otp_storage' = [otp_storage EXCEPT ![otp_id].attempts = threads[t].tmp + 1]
              /\ UNCHANGED detached
         ELSE /\ detached' = [detached EXCEPT ![otp_id].attempts = threads[t].tmp + 1]
              /\ UNCHANGED otp_storage
    /\ threads' = [threads EXCEPT ![t].pc = "compare", ![t].tmp = 0]
    /\ UNCHANGED tally
    /\ UNCHANGED thread_frame

\* app.py:948-951: the e-mail test, then the comparison of the codes
verify_otp_compare(t) ==
    /\ threads[t].pc = "compare"
    /\ \E otp_id \in {threads[t].otp_id} :
       \E otp_data \in {otp_data_of(otp_id)} :
         IF otp_data.email # threads[t].email
         THEN /\ threads' = [threads EXCEPT ![t] =
                    returning(@, [status |-> 200,
                                  body |-> [verified |-> FALSE,
                                            error |-> <<"Email mismatch">>]])]
              /\ UNCHANGED tally
         ELSE /\ threads' = [threads EXCEPT ![t].pc =
                    IF otp_data.otp = threads[t].otp THEN "promote" ELSE "remaining"]
              /\ tally' = DictSet(tally, otp_id,
                    [DictGet(tally, otp_id, NoTally) EXCEPT !.compared = @ + 1])
    /\ UNCHANGED <<otp_storage, detached>>
    /\ UNCHANGED thread_frame

\* app.py:966-970
verify_otp_remaining(t) ==
    /\ threads[t].pc = "remaining"
    /\ threads' = [threads EXCEPT ![t] =
          returning(@, [status |-> 200,
                        body |-> [verified |-> FALSE,
                                  error |-> <<"Invalid OTP. ",
                                              remaining_attempts(otp_data_of(threads[t].otp_id)),
                                              " attempts remaining.">>]])]
    /\ UNCHANGED <<otp_storage, detached, tally>>
    /\ UNCHANGED thread_frame

\* app.py:954  add_verified_email on the thread's session
verify_otp_promote(t) ==
    /\ threads[t].pc = "promote"
    /\ threads' = [threads EXCEPT
          ![t].pc = "consume",
          ![t].modified = TRUE,
          ![t].sess = add_verified_email(threads[t].sess, threads[t].email,
                                         otp_data_of(threads[t].otp_id).organization, now)]
    /\ UNCHANGED <<otp_storage, detached, tally>>
    /\ UNCHANGED thread_frame

\* app.py:957-964: del otp_storage[otp_id], the two session.pop, the answer
verify_otp_consume(t) ==
    /\ threads[t].pc = "consume"
    /\ \E otp_id \in {threads[t].otp_id} :
         IF otp_id \in DOMAIN otp_storage
         THEN /\ otp_storage' = consume_otp(otp_storage, otp_id)
              /\ detached' = DictSet(detached, otp_id, otp_storage[otp_id])
              /\ threads' = [threads EXCEPT ![t] =
                    [returning(@, [status |-> 200,
                                   body |-> [verified |-> TRUE,
                                             message |-> "Email verified successfully"]])
                       EXCEPT !.sess = DictDel(DictDel(threads[t].sess, "otp_id"),
                                               "pending_email")]]
              /\ tally' = DictSet(tally, otp_id,
                    [DictGet(tally, otp_id, NoTally) EXCEPT !.succeeded = @ + 1])
         ELSE /\ threads' = [threads EXCEPT ![t] = returning(@, internal_server_error)]
              /\ UNCHANGED <<otp_storage, detached, tally>>
    /\ UNCHANGED thread_frame

\* the response reaches the client; its Set-Cookie, sent when the handler
\* modified the session, replaces the client's session
verify_otp_respond(t) ==
    /\ threads[t].pc = "respond"
    /\ session' = IF threads[t].modified THEN threads[t].sess ELSE session
    /\ req' = [op |-> "verify_otp", email |-> threads[t].email, otp |-> threads[t].otp]
    /\ resp' = threads[t].resp
    /\ notifier' = <<>>
    /\ threads' = [threads EXCEPT ![t] =
          [IdleThread EXCEPT !.served = threads[t].served + 1]]
    /\ UNCHANGED <<otp_storage, detached, tally, environ, now, ticks, issued,
                   fn_send_otp_storage, fn_verify_otp_storage, visits_db>>

NextThreads ==
    \/ send_otp(EmailU, <<"A">>, OTP_MIN,
                [raises |-> FALSE, status_code |-> 202], [raises |-> FALSE])
    \/ \E t \in ThreadIds, o \in GenCodes : verify_otp_begin(t, EmailU, Str(o))
    \/ \E t \in ThreadIds : verify_otp_lookup(t)
    \/ \E t \in ThreadIds : verify_otp_load(t)
    \/ \E t \in ThreadIds : verify_otp_expiry(t)
    \/ \E t \in ThreadIds : verify_otp_ceiling(t)
    \/ \E t \in ThreadIds : verify_otp_inc_read(t)
    \/ \E t \in ThreadIds : verify_otp_inc_write(t)
    \/ \E t \in ThreadIds : verify_otp_compare(t)
    \/ \E t \in ThreadIds : verify_otp_remaining(t)
    \/ \E t \in ThreadIds : verify_otp_promote(t)
    \/ \E t \in ThreadIds : verify_otp_consume(t)
    \/ \E t \in ThreadIds : verify_otp_respond(t)
    \/ Tick(OTP_TTL + 1)

SpecThreads == Init /\ [][NextThreads]_vars

-----------------------------------------------------------------------------
(* The OTP store under repeated issuance: one visitor asks for an OTP more *)
(* than once for the same address and uses the other routes in between.    *)

MaxStored == 2     \* OTP ids that may be generated here

\* the same address with one organization name and with another
StoreRequests ==
    { [email |-> EmailU, organization |-> <<"A">>],
      [email |-> EmailU, organization |-> <<"B">>] }

Delivered == [sg |-> [raises |-> FALSE, status_code |-> 202], smtp |-> [raises |-> FALSE]]

NextStore ==
    \/ \E r \in StoreRequests, c \in GenCodes :
          send_otp_bounded(MaxStored, r.email, r.organization, c,
                           Delivered.sg, Delivered.smtp)
    \/ \E e \in Emails, c \in GenCodes : verify_otp(e, Str(c))
    \/ check_verification(EmailU)
    \/ calculate
    \/ Tick(OTP_TTL + 1)

SpecStore == Init /\ [][NextStore]_vars

-----------------------------------------------------------------------------
(* The two deployments side by side: every issuance and every submission   *)
(* sent to the routes of app.py is sent next, unchanged, to the serverless *)
(* functions; the serverless send-otp is given the code the route issued.  *)

\* the last request went to app.py and has not been sent to the functions
to_mirror ==
    \/ req.op = "verify_otp"
    \/ req.op = "send_otp" /\ resp.status = 200 /\ "success" \in DOMAIN resp.body

PairCodes == { Str(OTP_MIN), Str(OTP_MAX) }

NextPair ==
    \/ /\ ~to_mirror
       /\ \E c \in GenCodes :
             send_otp_bounded(MaxStored, EmailU, <<"A">>, c, Delivered.sg, Delivered.smtp)
    \/ /\ ~to_mirror
       /\ \E o \in PairCodes : verify_otp(EmailU, o)
    \/ /\ ~to_mirror
       /\ Tick(OTP_TTL + 1)
    \/ /\ to_mirror /\ req.op = "send_otp"
       /\ \E c \in GenCodes :
             /\ Str(c) = otp_storage[session["otp_id"]].otp
             /\ send_otp_main(req.email, req.organization, c,
                              Delivered.sg, Delivered.smtp)
    \/ /\ to_mirror /\ req.op = "verify_otp"
       /\ verify_otp_main(req.email, req.otp)

SpecPair == Init /\ [][NextPair]_vars

-----------------------------------------------------------------------------
(* The headcount bands of the plans: get_plan_costs picks the row of the   *)
(* 'Plans' sheet by a (MinHC, MaxHC) pair, get_plan_details_by_headcount   *)
(* picks the entry of its configuration by a label.  The sheet and the     *)
(* configuration texts are not modelled: a lookup answers with the band.   *)

MaxBelowZero == 2     \* negative headcounts submitted
MaxHeadcount == 1002

\* headcount = int(request.form.get('headcount', 100))
Headcounts == (0 - MaxBelowZero) .. MaxHeadcount

\* headcount_ranges, app.py:742-744
headcount_ranges == << <<0, 50>>, <<51, 100>>, <<101, 250>>, <<251, 500>>, <<501, 1000>> >>

NoRange == <<>>

RECURSIVE first_range_from(_, _)
\* for min_hc, max_hc in headcount_ranges: if min_hc <= headcount <= max_hc: ... break
first_range_from(i, headcount) ==
    IF i > Len(headcount_ranges) THEN NoRange
    ELSE IF headcount_ranges[i][1] <= headcount /\ headcount <= headcount_ranges[i][2]
    THEN headcount_ranges[i]
    ELSE first_range_from(i + 1, headcount)

\* selected_range of get_plan_costs, app.py:746-754
selected_range(headcount) ==
    LET found == first_range_from(1, headcount) IN
    IF found = NoRange THEN <<501, 1000>> ELSE found

\* headcount_range of get_plan_details_by_headcount, app.py:537-546
headcount_range(headcount) ==
    IF headcount <= 50 THEN <<"0","-","5","0">>
    ELSE IF headcount <= 100 THEN <<"5","1","-","1","0","0">>
    ELSE IF headcount <= 250 THEN <<"1","0","1","-","2","5","0">>
    ELSE IF headcount <= 500 THEN <<"2","5","1","-","5","0","0">>
    ELSE <<"5","0","1","-","1","0","0","0">>

\* get_plan_costs(headcount, plan), up to the choice of the row
get_plan_costs(headcount) ==
    /\ req' = [op |-> "get_plan_costs", headcount |-> headcount]
    /\ resp' = [status |-> 0, body |-> [selected_range |-> selected_range(headcount)]]
    /\ notifier' = <<>>
    /\ UNCHANGED <<otp_storage, session, environ, now, ticks, issued,
                   outside_app, visits_db>>

\* get_plan_details_by_headcount(plan, headcount), up to the choice of the entry
get_plan_details_by_headcount(headcount) ==
    /\ req' = [op |-> "get_plan_details_by_headcount", headcount |-> headcount]
    /\ resp' = [status |-> 0, body |-> [headcount_range |-> headcount_range(headcount)]]
    /\ notifier' = <<>>
    /\ UNCHANGED <<otp_storage, session, environ, now, ticks, issued,
                   outside_app, visits_db>>

NextPlans ==
    \/ \E h \in Headcounts : get_plan_costs(h)
    \/ \E h \in Headcounts : get_plan_details_by_headcount(h)

SpecPlans == Init /\ [][NextPlans]_vars


-----------------------------------------------------------------------------
(* log_visit on its own: calls of either module's log_visit in any order,  *)
(* with and without a user_id, each of which may raise at any of its       *)
(* database statements.                                                    *)

MaxVisits == 4

VisitInputs ==
    { [user_id |-> EmailU], [user_id |-> EmailV], [user_id |-> <<>>], EmptyDict }

\* log_visit(user_data) of app.py, called
log_visit(user_data, fault) ==
    /\ Len(user_visits) < MaxVisits
    /\ \E logged \in {log_visit_on(visits_db_now, user_data, fault, now)} :
          /\ user_visits' = logged.db.user_visits
          /\ user_stats' = logged.db.user_stats
          /\ resp' = [status |-> 0, body |-> [returned |-> logged.result]]
    /\ req' = [op |-> "log_visit", user_data |-> user_data, fault |-> fault]
    /\ UNCHANGED <<otp_storage, session, environ, now, ticks, issued, notifier,
                   outside_app>>

\* log_visit(user_data) of visits_tracker.py, called
visits_tracker_log_visit(user_data, fault) ==
    /\ Len(user_visits) < MaxVisits
    /\ \E logged \in {visits_tracker_log_visit_on(visits_db_now, user_data, fault, now)} :
          /\ user_visits' = logged.db.user_visits
          /\ user_stats' = logged.db.user_stats
          /\ resp' = [status |-> 0, body |-> [returned |-> logged.result]]
    /\ req' = [op |-> "visits_tracker_log_visit", user_data |-> user_data,
               fault |-> fault]
    /\ UNCHANGED <<otp_storage, session, environ, now, ticks, issued, notifier,
                   outside_app>>

NextVisits ==
    \/ \E d \in VisitInputs, f \in DbFaults : log_visit(d, f)
    \/ \E d \in VisitInputs, f \in DbFaults : visits_tracker_log_visit(d, f)

SpecVisits == Init /\ [][NextVisits]_vars

-----------------------------------------------------------------------------
(* Vocabulary of the properties.  In an action formula req' is the request *)
(* the step handles, with the e-mail and code as the handler reads them    *)
(* (lower-cased, stripped), and resp' is its response; the unprimed        *)
(* variables are the state the handler finds.                              *)

Registry(sess) == DictGet(sess, "verified_emails", EmptyDict)

\* the session names an OTP record that is in the store
HasRecord == DictGet(session, "otp_id", NoId) \in DOMAIN otp_storage

Record == otp_storage[session["otp_id"]]

\* a /api/verify-otp request that passes the required-field check
VerifyStep ==
    req'.op = "verify_otp" /\ req'.email # <<>> /\ req'.otp # <<>>

\* the outcome a /api/verify-otp response stands for
Outcome(r) ==
    IF r.status # 200 \/ "verified" \notin DOMAIN r.body THEN "None"
    ELSE IF r.body.verified
    THEN (IF r.body.message = "Email verified successfully" THEN "Success" ELSE "None")
    ELSE IF "error" \notin DOMAIN r.body THEN "None"
    ELSE IF r.body.error \in { <<"OTP session expired">>, <<"OTP expired">> }
    THEN "Expired"
    ELSE IF r.body.error = <<"Too many attempts">> THEN "TooManyAttempts"
    ELSE IF r.body.error = <<"Email mismatch">> THEN "EmailMismatch"
    ELSE IF Len(r.body.error) = 3 /\ r.body.error[1] = "Invalid OTP. "
    THEN "InvalidCode"
    ELSE "None"

\* the count an InvalidCode response reports
Remaining(r) == r.body.error[2]

-----------------------------------------------------------------------------
(* C1: a verify-otp with the issued code and the record's e-mail, made on  *)
(* a record no verify has counted against yet and at most 10 minutes after *)
(* issuance, returns Success and removes the record; the verify-otp that   *)
(* follows a Success returns Expired and changes no record.                *)

C1_IssueVerifyOnce ==
    [][ VerifyStep =>
          /\ (/\ HasRecord
              /\ Record.attempts = 0
              /\ now - Record.created_at <= OTP_TTL
              /\ req'.email = Record.email
              /\ req'.otp = Record.otp)
               => (/\ Outcome(resp') = "Success"
                   /\ session["otp_id"] \notin DOMAIN otp_storage')
          /\ (req.op = "verify_otp" /\ Outcome(resp) = "Success")
               => (Outcome(resp') = "Expired" /\ otp_storage' = otp_storage)
      ]_vars

\* a verify-otp answered "expired" in a session whose only record was
\* consumed by a successful verification
C1_Witness ==
    /\ req.op = "verify_otp"
    /\ Outcome(resp) = "Expired"
    /\ issued = 1 /\ ticks = 0
    /\ otp_storage = EmptyDict
    /\ EmailU \in DOMAIN Registry(session)

-----------------------------------------------------------------------------
(* C2: on an unexpired record and with the record's e-mail, a wrong code   *)
(* is answered InvalidCode with remaining 2, 1, 0 when the record has      *)
(* counted 0, 1, 2 attempts, each time counting one more; with 3 attempts  *)
(* counted the call is answered TooManyAttempts.                           *)

C2_WrongCodeSequence ==
    [][ (/\ VerifyStep
         /\ HasRecord
         /\ now - Record.created_at <= OTP_TTL
         /\ req'.email = Record.email
         /\ req'.otp # Record.otp) =>
           /\ Record.attempts \in 0..2 =>
                /\ Outcome(resp') = "InvalidCode"
                /\ Remaining(resp') = 2 - Record.attempts
                /\ session["otp_id"] \in DOMAIN otp_storage'
                /\ otp_storage'[session["otp_id"]].attempts = Record.attempts + 1
           /\ Record.attempts = 3 => Outcome(resp') = "TooManyAttempts"
      ]_vars

\* the fourth call, the record still inside its 10 minutes
C2_Witness ==
    /\ req.op = "verify_otp"
    /\ Outcome(resp) = "TooManyAttempts"
    /\ ticks = 0

-----------------------------------------------------------------------------
(* C3 as stated: the wrong code that brings attempts to 3 leaves the       *)
(* record in the store with attempts = 3, and a record with attempts = 3   *)
(* leaves the store only in a verify-otp step, answered TooManyAttempts.   *)

C3_ExhaustedRemovedAsTooMany ==
    [][ /\ (VerifyStep /\ Outcome(resp') = "InvalidCode" /\ Remaining(resp') = 0) =>
              /\ session["otp_id"] \in DOMAIN otp_storage'
              /\ otp_storage'[session["otp_id"]].attempts = 3
        /\ \A i \in DOMAIN otp_storage :
             (otp_storage[i].attempts = 3 /\ i \notin DOMAIN otp_storage') =>
                (VerifyStep /\ Outcome(resp') = "TooManyAttempts")
      ]_vars

(* C3 as amended: the wrong code that brings attempts to 3 leaves the      *)
(* record in the store with attempts = 3; a record with attempts = 3       *)
(* leaves the store only in a verify-otp step of the session holding its   *)
(* id, every such verify-otp removes it, and the answer is TooManyAttempts *)
(* when the record is at most 10 minutes old and Expired when it is older. *)

C3_ExhaustedRemovedByNextVerify ==
    [][ /\ (VerifyStep /\ Outcome(resp') = "InvalidCode" /\ Remaining(resp') = 0) =>
              /\ session["otp_id"] \in DOMAIN otp_storage'
              /\ otp_storage'[session["otp_id"]].attempts = 3
        /\ \A i \in DOMAIN otp_storage :
             (otp_storage[i].attempts = 3 /\ i \notin DOMAIN otp_storage') =>
                /\ VerifyStep
                /\ DictGet(session, "otp_id", NoId) = i
                /\ Outcome(resp') = IF now - otp_storage[i].created_at > OTP_TTL
                                    THEN "Expired" ELSE "TooManyAttempts"
        /\ (VerifyStep /\ HasRecord /\ Record.attempts = 3) =>
              session["otp_id"] \notin DOMAIN otp_storage'
      ]_vars

\* right after the third wrong code
C3_Witness ==
    /\ req.op = "verify_otp"
    /\ Outcome(resp) = "InvalidCode"
    /\ Remaining(resp) = 0
    /\ HasRecord
    /\ Record.attempts = 3

-----------------------------------------------------------------------------
(* C4: a verify-otp made more than 600 seconds after the record's          *)
(* created_at returns Expired whatever code and e-mail are submitted,      *)
(* removes the record and leaves the session, hence the registry, as it    *)
(* was; one made at most 600 seconds after it is not answered Expired.     *)

C4_ExpiryAfterTenMinutes ==
    [][ (VerifyStep /\ HasRecord) =>
          /\ now - Record.created_at > OTP_TTL =>
               /\ Outcome(resp') = "Expired"
               /\ session["otp_id"] \notin DOMAIN otp_storage'
               /\ session' = session
          /\ now - Record.created_at <= OTP_TTL => Outcome(resp') # "Expired"
      ]_vars

\* the correct code and e-mail, refused 601 seconds after issuance
C4_Witness ==
    /\ req.op = "verify_otp"
    /\ req.email = EmailU
    /\ req.otp = Str(OTP_MIN)
    /\ resp.body = [verified |-> FALSE, error |-> <<"OTP expired">>]
    /\ now = StartTime + OTP_TTL + 1
    /\ otp_storage = EmptyDict
    /\ session["pending_email"] = EmailU
    /\ Registry(session) = EmptyDict

-----------------------------------------------------------------------------
(* C5: a verify-otp whose e-mail differs from the record's, on an          *)
(* unexpired record with attempts < 3, returns EmailMismatch whatever code *)
(* is submitted, keeps the record with attempts one higher and nothing     *)
(* else changed, and leaves the session, hence the registry, as it was.    *)

C5_EmailMismatchCounts ==
    [][ (/\ VerifyStep
         /\ HasRecord
         /\ now - Record.created_at <= OTP_TTL
         /\ Record.attempts < 3
         /\ req'.email # Record.email) =>
           /\ Outcome(resp') = "EmailMismatch"
           /\ otp_storage' = [otp_storage EXCEPT
                                ![session["otp_id"]].attempts = Record.attempts + 1]
           /\ session' = session
      ]_vars

\* another address submitted together with the record's own code
C5_Witness ==
    /\ req.op = "verify_otp"
    /\ Outcome(resp) = "EmailMismatch"
    /\ HasRecord
    /\ req.otp = Record.otp
    /\ Record.attempts >= 1
    /\ Registry(session) = EmptyDict

-----------------------------------------------------------------------------
(* C6: a verify-otp that returns Success was made on the record the        *)
(* session names; afterwards that record is gone from the store and the    *)
(* registry holds, for the record's e-mail, the record's organization and  *)
(* a verified_at that reads back as the time of the call.                  *)

C6_SuccessPromotesRecord ==
    [][ (req'.op = "verify_otp" /\ Outcome(resp') = "Success") =>
          /\ HasRecord
          /\ session["otp_id"] \notin DOMAIN otp_storage'
          /\ Record.email \in DOMAIN Registry(session')
          /\ Registry(session')[Record.email].organization = Record.organization
          /\ fromisoformat(Registry(session')[Record.email].verified_at) = now
      ]_vars

\* verified ten minutes after issuance, for organization "B"
C6_Witness ==
    /\ req.op = "verify_otp"
    /\ Outcome(resp) = "Success"
    /\ EmailV \in DOMAIN Registry(session)
    /\ Registry(session)[EmailV].organization = <<"B">>
    /\ fromisoformat(Registry(session)[EmailV].verified_at) = StartTime + OTP_TTL
    /\ otp_storage = EmptyDict

-----------------------------------------------------------------------------
(* C7: a verify-otp in a session that names no record of the store (no id  *)
(* was ever issued to it, or the record was consumed or removed) returns   *)
(* Expired and changes neither the store nor the session.                  *)

C7_UnknownIdIsExpired ==
    [][ (VerifyStep /\ ~HasRecord) =>
          /\ Outcome(resp') = "Expired"
          /\ otp_storage' = otp_storage
          /\ session' = session
      ]_vars

\* before any issuance
C7_Witness ==
    /\ req.op = "verify_otp"
    /\ Outcome(resp) = "Expired"
    /\ issued = 0
    /\ session = EmptyDict

-----------------------------------------------------------------------------
(* C8: while an e-mail has a registry entry, /api/check-verification       *)
(* answers verified (with the entry's organization) when less than 86400   *)
(* seconds have passed since the entry's verified_at and not verified when *)
(* 86400 seconds or more have passed; /api/send-otp answers                *)
(* already_verified in exactly the first case.  (By C6 verified_at is the  *)
(* time of the successful verification.)                                   *)

C8_VerifiedFor24Hours ==
    [][ /\ (/\ req'.op = "check_verification"
            /\ req'.email \in DOMAIN Registry(session)) =>
              LET entry == Registry(session)[req'.email] IN
              IF now - fromisoformat(entry.verified_at) < VERIFIED_TTL
              THEN /\ resp'.body.verified = TRUE
                   /\ resp'.body.organization = entry.organization
              ELSE resp'.body.verified = FALSE
        /\ (/\ req'.op = "send_otp"
            /\ req'.organization # <<>>
            /\ req'.email \in DOMAIN Registry(session)) =>
              ("already_verified" \in DOMAIN resp'.body
                 <=> now - fromisoformat(Registry(session)[req'.email].verified_at)
                       < VERIFIED_TTL)
      ]_vars

\* still verified 23h59m59s after a verification made at StartTime
C8_Witness ==
    /\ req.op = "check_verification"
    /\ req.email = EmailU
    /\ resp.status = 200
    /\ resp.body.verified = TRUE
    /\ now = StartTime + VERIFIED_TTL - 1
    /\ EmailU \in DOMAIN Registry(session)
    /\ fromisoformat(Registry(session)[EmailU].verified_at) = StartTime
    /\ issued = 1

-----------------------------------------------------------------------------
(* C9: is_email_verified, called by /api/check-verification, on an entry   *)
(* 86400 seconds old or older answers false and removes that entry; on a   *)
(* younger entry or a missing e-mail it leaves the session unchanged; the  *)
(* entries of other e-mails stay as they were and none is added.           *)

C9_LazyPurgeOnly ==
    [][ (req'.op = "check_verification" /\ req'.email # <<>>) =>
          LET reg == Registry(session)
              after == Registry(session')
              stale == /\ req'.email \in DOMAIN reg
                       /\ now - fromisoformat(reg[req'.email].verified_at)
                            >= VERIFIED_TTL
          IN
          /\ stale => (resp'.body.verified = FALSE /\ req'.email \notin DOMAIN after)
          /\ ~stale => session' = session
          /\ DOMAIN after \subseteq DOMAIN reg
          /\ \A x \in DOMAIN reg \ {req'.email} :
                 x \in DOMAIN after /\ after[x] = reg[x]
      ]_vars

\* a lookup of one address answered false 24 hours after the first entry
\* was written, the other address's entry, written at that time, still there
C9_Witness ==
    /\ req.op = "check_verification"
    /\ req.email = EmailU
    /\ resp.status = 200
    /\ resp.body.verified = FALSE
    /\ now = StartTime + VERIFIED_TTL
    /\ DOMAIN Registry(session) = {EmailV}
    /\ fromisoformat(Registry(session)[EmailV].verified_at) = now

-----------------------------------------------------------------------------
(* C10: add_verified_email leaves the e-mail with one entry carrying the   *)
(* organization just supplied and a verified_at that reads back as the     *)
(* time of the call, whether or not the e-mail had an entry; the entries   *)
(* of other e-mails stay as they were.                                     *)

C10_LastVerifiedWins ==
    [][ req'.op = "add_verified_email" =>
          LET reg == Registry(session)
              after == Registry(session')
          IN
          /\ DOMAIN after = DOMAIN reg \cup {req'.email}
          /\ after[req'.email].organization = req'.organization
          /\ fromisoformat(after[req'.email].verified_at) = now
          /\ \A x \in DOMAIN reg \ {req'.email} : after[x] = reg[x]
      ]_vars

\* the only entry was written after the clock moved, which takes an entry
\* to be there: the earlier entry of the same address was replaced
C10_Witness ==
    /\ req.op = "add_verified_email"
    /\ DOMAIN Registry(session) = {EmailU}
    /\ Registry(session)[EmailU].organization = <<"B">>
    /\ fromisoformat(Registry(session)[EmailU].verified_at) = StartTime + OTP_TTL
    /\ now = StartTime + OTP_TTL

-----------------------------------------------------------------------------
(* Vocabulary of the issuance properties                                   *)

\* an issuance request, at either entry point, that carries both fields
IssueStep ==
    /\ req'.op \in {"send_otp", "fn_send_otp"}
    /\ req'.email # <<>>
    /\ req'.organization # <<>>

\* the step wrote an OTP record
RecordWritten ==
    otp_storage' # otp_storage \/ fn_send_otp_storage' # fn_send_otp_storage

\* after the step the entry point's store holds a record for the e-mail
RecordHeld ==
    IF req'.op = "send_otp"
    THEN /\ DictGet(session', "otp_id", NoId) \in DOMAIN otp_storage'
         /\ otp_storage'[session'["otp_id"]].email = req'.email
    ELSE req'.email \in DOMAIN fn_send_otp_storage'

\* the validation failure an issuance response stands for
IssueFailure(r) ==
    IF r.status = 200 \/ "error" \notin DOMAIN r.body THEN "None"
    ELSE IF r.body.error = <<"Please enter a valid email address">>
    THEN "InvalidEmail"
    ELSE IF r.body.error = <<"Please use your company/organization email address. Personal email addresses like Gmail, Yahoo, etc. are not allowed.">>
    THEN "PersonalEmailBlocked"
    ELSE "Other"

\* no provider accepted the message
NotDelivered(calls) == \A i \in DOMAIN calls : ~calls[i].accepted

-----------------------------------------------------------------------------
(* C11: an issuance request whose e-mail is not of the form                *)
(* local@domain.tld is answered InvalidEmail, writes no OTP record and     *)
(* makes no call to a mail provider, at the /api/send-otp route and at the *)
(* serverless send-otp function alike.                                     *)

C11_InvalidEmailRejected ==
    [][ (IssueStep /\ ~is_valid_email(req'.email)) =>
          /\ IssueFailure(resp') = "InvalidEmail"
          /\ ~RecordWritten
          /\ notifier' = <<>>
      ]_vars

\* the route has stored a record for "not-an-email" and called a provider
C11_Witness ==
    /\ req.op = "send_otp"
    /\ req.email = EmailInvalid
    /\ \E i \in DOMAIN otp_storage : otp_storage[i].email = EmailInvalid
    /\ notifier # <<>>
    /\ resp.status = 200

-----------------------------------------------------------------------------
(* C12: an issuance request whose e-mail is well-formed with a domain of   *)
(* the personal-domain list is answered PersonalEmailBlocked, writes no    *)
(* OTP record and makes no call to a mail provider; one whose e-mail is    *)
(* well-formed with another domain, and not verified already, is not       *)
(* refused by validation and writes a record; at both entry points.        *)

C12_PersonalDomainBlocked ==
    [][ (IssueStep /\ is_valid_email(req'.email)) =>
          IF is_personal_email(req'.email)
          THEN /\ IssueFailure(resp') = "PersonalEmailBlocked"
               /\ ~RecordWritten
               /\ notifier' = <<>>
          ELSE /\ IssueFailure(resp') \notin {"InvalidEmail", "PersonalEmailBlocked"}
               /\ "already_verified" \notin DOMAIN resp'.body => RecordHeld
      ]_vars

\* the route has stored a record for user@gmail.com and called a provider
C12_Witness ==
    /\ req.op = "send_otp"
    /\ req.email = EmailPersonal
    /\ \E i \in DOMAIN otp_storage : otp_storage[i].email = EmailPersonal
    /\ notifier # <<>>
    /\ resp.status = 200

-----------------------------------------------------------------------------
(* C13: when /api/send-otp generates an OTP and no mail provider accepts   *)
(* the message, the record is in the store with attempts = 0 under the id  *)
(* the session now carries, and a verify-otp that follows directly with    *)
(* the record's e-mail and code returns Success.                           *)

C13_DeliveryFailureKeepsRecord ==
    [][ /\ (req'.op = "send_otp" /\ issued' # issued /\ NotDelivered(notifier')) =>
              /\ DictGet(session', "otp_id", NoId) \in DOMAIN otp_storage'
              /\ otp_storage'[session'["otp_id"]].attempts = 0
              /\ otp_storage'[session'["otp_id"]].email = req'.email
              /\ otp_storage'[session'["otp_id"]].organization = req'.organization
        /\ (/\ req.op = "send_otp" /\ "success" \in DOMAIN resp.body
            /\ NotDelivered(notifier)
            /\ VerifyStep /\ HasRecord
            /\ req'.email = Record.email /\ req'.otp = Record.otp) =>
              Outcome(resp') = "Success"
      ]_vars

\* SendGrid and SMTP were both called and both failed; the record is there
C13_Witness ==
    /\ req.op = "send_otp"
    /\ Len(notifier) = 2
    /\ NotDelivered(notifier)
    /\ HasRecord
    /\ Record.attempts = 0
    /\ "demo_otp" \in DOMAIN resp.body

-----------------------------------------------------------------------------
(* C14: an issuance request that passes the entry point's validation is    *)
(* answered with status 200 and no error, whatever the mail providers do,  *)
(* at the /api/send-otp route and at the serverless function alike.        *)

C14_IssuanceAlwaysSucceeds ==
    [][ (/\ IssueStep
         /\ req'.op = "fn_send_otp" =>
               is_valid_email(req'.email) /\ ~is_personal_email(req'.email)) =>
          /\ resp'.status = 200
          /\ "error" \notin DOMAIN resp'.body
      ]_vars

\* the serverless function answered 500 after both providers failed, the
\* record already written
C14_Witness ==
    /\ req.op = "fn_send_otp"
    /\ resp.status = 500
    /\ Len(notifier) = 2
    /\ NotDelivered(notifier)
    /\ req.email \in DOMAIN fn_send_otp_storage

-----------------------------------------------------------------------------
(* C15: the answer of /api/send-otp to an issuance says the OTP was sent   *)
(* (no demo_otp fallback in the body) only if a mail provider accepted the *)
(* message.                                                                *)

C15_DeliveredOnlyIfAccepted ==
    [][ (req'.op = "send_otp" /\ issued' # issued) =>
          ("demo_otp" \notin DOMAIN resp'.body => ~NotDelivered(notifier'))
      ]_vars

\* "sent successfully" with no mail variable set and no provider called
C15_Witness ==
    /\ req.op = "send_otp"
    /\ environ = UnconfiguredEnv
    /\ notifier = <<>>
    /\ HasRecord
    /\ resp.body = [success |-> TRUE,
                    message |-> "OTP sent successfully to your email"]

-----------------------------------------------------------------------------
(* Vocabulary of the properties of concurrent verification                 *)

\* no request is being handled
AllIdle == \A t \in ThreadIds : threads[t].pc = "idle"

\* the ids of the OTP dicts that exist, in the store or held by a thread
OtpIds == DOMAIN otp_storage \cup DOMAIN detached

-----------------------------------------------------------------------------
(* C16: whatever the interleaving of verify requests that carry the same   *)
(* OTP id, at most one of them is answered Success, and once all have      *)
(* returned the record's attempts is a value a sequential execution can    *)
(* leave: run one after the other, verifies never take attempts above 3    *)
(* (the call that finds attempts >= 3 deletes the record).                 *)

C16_ConcurrentVerifiesAsSequential ==
    /\ \A i \in DOMAIN tally : tally[i].succeeded <= 1
    /\ AllIdle => \A i \in OtpIds : otp_data_of(i).attempts <= MAX_ATTEMPTS

\* all requests have returned and the record is in the store with attempts 4
C16_Witness ==
    /\ AllIdle
    /\ \E i \in DOMAIN otp_storage : otp_storage[i].attempts = MAX_ATTEMPTS + 1
    /\ \A i \in DOMAIN tally : tally[i].succeeded = 0

-----------------------------------------------------------------------------
(* C17: the ceiling check and the increment act as one step for the        *)
(* verifiers of an id: no more than 3 submitted codes are compared with    *)
(* the code of one OTP record, and every store of the increment leaves     *)
(* attempts one above what it was just before the store.                   *)

C17_CeilingAndIncrementAtomic ==
    [][ /\ \A i \in DOMAIN tally' : tally'[i].compared <= MAX_ATTEMPTS
        /\ \A t \in ThreadIds :
             (threads[t].pc = "inc_write" /\ threads'[t].pc = "compare") =>
                LET i == threads[t].otp_id IN
                (IF i \in DOMAIN otp_storage' THEN otp_storage'[i] ELSE detached'[i]).attempts
                    = otp_data_of(i).attempts + 1
      ]_vars

\* a fourth code was compared with the code of one record
C17_Witness ==
    \E i \in DOMAIN tally : tally[i].compared = MAX_ATTEMPTS + 1

-----------------------------------------------------------------------------
(* C18: a verify-otp request with a non-empty e-mail and code is answered  *)
(* with one of Success, Expired, TooManyAttempts, EmailMismatch and        *)
(* InvalidCode, also when other verify requests run at the same time.      *)

C18_VerifyOutcomeClosed ==
    \A t \in ThreadIds :
        (threads[t].pc = "respond" /\ threads[t].email # <<>> /\ threads[t].otp # <<>>)
            => Outcome(threads[t].resp) \in
                 {"Success", "Expired", "TooManyAttempts", "EmailMismatch", "InvalidCode"}

\* a client was answered 500 'Internal server error'
C18_Witness ==
    /\ req.op = "verify_otp"
    /\ req.email # <<>> /\ req.otp # <<>>
    /\ resp = internal_server_error

-----------------------------------------------------------------------------
(* C19: the attempts count of an OTP record starts at 0 and never          *)
(* decreases while the record is stored, nothing else of a stored record   *)
(* changes, and a record is removed only by a verify-otp: not by the step  *)
(* that issues another OTP, nor by a registry lookup or a calculate.       *)

C19_RecordLifecycle ==
    [][ /\ \A i \in DOMAIN otp_storage' \ DOMAIN otp_storage :
             otp_storage'[i].attempts = 0
        /\ \A i \in DOMAIN otp_storage \cap DOMAIN otp_storage' :
             /\ otp_storage'[i].attempts >= otp_storage[i].attempts
             /\ [otp_storage'[i] EXCEPT !.attempts = 0]
                  = [otp_storage[i] EXCEPT !.attempts = 0]
        /\ \A i \in DOMAIN otp_storage \ DOMAIN otp_storage' :
             /\ issued' = issued
             /\ req' # req => req'.op = "verify_otp"
      ]_vars

\* a request has read the count 0 and is about to store 1, while the
\* requests served meanwhile have brought the count to 2
C19_Witness ==
    \E t \in ThreadIds :
        /\ threads[t].pc = "inc_write"
        /\ threads[t].otp_id \in DOMAIN otp_storage
        /\ threads[t].tmp = 0
        /\ otp_storage[threads[t].otp_id].attempts = 2

(* C20: in the store of the /api/send-otp route, keyed by OTP id, an       *)
(* issuance stores its record under an id no record is stored under and    *)
(* leaves every record already stored as it was, so that the records of    *)
(* one e-mail accumulate; a verify-otp changes or removes at most the       *)
(* record its session names.                                               *)

-----------------------------------------------------------------------------
(* C21: the /calculate that follows a Success of verify-otp in the same    *)
(* session carries the verified e-mail and the organization of its         *)
(* registry entry in its results, and hands log_visit that e-mail as the   *)
(* user id of the visit.                                                   *)

C21_CalculateAttachesIdentity ==
    [][ (/\ req.op = "verify_otp"
         /\ Outcome(resp) = "Success"
         /\ req'.op = "calculate") =>
          /\ "verified_email" \in DOMAIN resp'.body
          /\ resp'.body.verified_email = req.email
          /\ resp'.body.organization = Registry(session)[req.email].organization
          /\ \E fault \in DbFaults :
                log_visit_on(visits_db_now, [user_id |-> req.email], fault, now).db
                   = [user_visits |-> user_visits', user_stats |-> user_stats']
      ]_vars

\* a /calculate answered without identity at the very time EmailU was
\* verified in this session
C21_Witness ==
    /\ req.op = "calculate"
    /\ EmailU \in DOMAIN Registry(session)
    /\ fromisoformat(Registry(session)[EmailU].verified_at) = now
    /\ "pending_email" \notin DOMAIN session
    /\ resp.body = EmptyDict
    /\ user_visits = <<>>

-----------------------------------------------------------------------------
(* C22: a verify-otp is decided by the first of its tests that fails, in   *)
(* the order: record present, record at most 10 minutes old, fewer than 3  *)
(* attempts counted, (the attempt is counted here), submitted e-mail equal *)
(* to the record's, submitted code equal to the record's.  So a record     *)
(* both too old and exhausted answers Expired, and the record's own e-mail *)
(* and code answer TooManyAttempts at attempts = 3 and Success below 3.    *)

C22_ChecksInOrder ==
    [][ VerifyStep =>
          Outcome(resp') =
             IF ~HasRecord THEN "Expired"
             ELSE IF now - Record.created_at > OTP_TTL THEN "Expired"
             ELSE IF Record.attempts >= MAX_ATTEMPTS THEN "TooManyAttempts"
             ELSE IF req'.email # Record.email THEN "EmailMismatch"
             ELSE IF req'.otp = Record.otp THEN "Success"
             ELSE "InvalidCode"
      ]_vars

\* the record's own code submitted with another e-mail as the third
\* attempt: counted, and answered for the e-mail
C22_Witness ==
    /\ req.op = "verify_otp"
    /\ Outcome(resp) = "EmailMismatch"
    /\ HasRecord
    /\ req.otp = Record.otp
    /\ req.email # Record.email
    /\ Record.attempts = MAX_ATTEMPTS

-----------------------------------------------------------------------------
(* Vocabulary of the serverless pair *)

\* the outcome a response of the serverless verify-otp stands for
FnOutcome(r) ==
    IF "verified" \notin DOMAIN r.body THEN "None"
    ELSE IF r.body.verified THEN (IF r.status = 200 THEN "Success" ELSE "None")
    ELSE IF r.body.error \in { <<"OTP not found or expired">>, <<"OTP expired">> }
    THEN "Expired"
    ELSE IF r.body.error = <<"Too many failed attempts">> THEN "TooManyAttempts"
    ELSE IF r.body.error = <<"Invalid OTP">> THEN "InvalidCode"
    ELSE "None"

\* the serverless verify-otp handles the submission app.py has just handled
MirroredVerify ==
    /\ req.op = "verify_otp"
    /\ req'.op = "fn_verify_otp"
    /\ req'.email = req.email /\ req'.otp = req.otp

-----------------------------------------------------------------------------
(* C23: given the same issued OTP and the same submissions, the serverless *)
(* verify-otp answers each submission with the outcome the /api/verify-otp *)
(* route gave it, and removes its record at the submission at which the    *)
(* route removed its own.                                                  *)

C23_SameOutcomes ==
    [][ MirroredVerify =>
          /\ FnOutcome(resp') = Outcome(resp)
          /\ (req.email \in DOMAIN fn_send_otp_storage'
                \/ req.email \in DOMAIN fn_verify_otp_storage')
               <=> HasRecord
      ]_vars

\* the issued code, accepted by the route, answered by the function
C23_Witness ==
    /\ req.op = "fn_verify_otp"
    /\ req.email = EmailU
    /\ req.email \in DOMAIN fn_send_otp_storage
    /\ req.otp = fn_send_otp_storage[req.email].otp
    /\ EmailU \in DOMAIN Registry(session)
    /\ fromisoformat(Registry(session)[EmailU].verified_at) = now

-----------------------------------------------------------------------------
(* C24: a /api/send-otp for an e-mail whose registry entry is less than    *)
(* 24 hours old answers already_verified; it generates no id, stores no    *)
(* record, calls no mail provider and leaves the session as it was, otp_id *)
(* and pending_email included.                                             *)

C24_VerifiedSkipsIssuance ==
    [][ (/\ req'.op = "send_otp"
         /\ req'.email # <<>> /\ req'.organization # <<>>
         /\ req'.email \in DOMAIN Registry(session)
         /\ now - fromisoformat(Registry(session)[req'.email].verified_at)
              < VERIFIED_TTL) =>
          /\ resp'.status = 200
          /\ "already_verified" \in DOMAIN resp'.body
          /\ resp'.body.already_verified = TRUE
          /\ otp_storage' = otp_storage
          /\ issued' = issued
          /\ notifier' = <<>>
          /\ DictGet(session', "otp_id", NoId) = DictGet(session, "otp_id", NoId)
          /\ DictGet(session', "pending_email", <<>>)
               = DictGet(session, "pending_email", <<>>)
          /\ session' = session
      ]_vars

\* EmailU asks again right after it was verified
C24_Witness ==
    /\ req.op = "send_otp"
    /\ req.email = EmailU
    /\ "already_verified" \in DOMAIN resp.body
    /\ EmailU \in DOMAIN Registry(session)
    /\ issued = 1
    /\ otp_storage = EmptyDict
    /\ notifier = <<>>
    /\ "otp_id" \notin DOMAIN session

-----------------------------------------------------------------------------
(* C25: the mail of one issuance goes to SendGrid first and to SMTP only   *)
(* after SendGrid did not take it: a SendGrid call is the first call, an   *)
(* SMTP call is the last and follows no accepted SendGrid call, so at most *)
(* one provider accepts the message.  send_email of app.py returns true    *)
(* (the response carries no demo_otp) exactly when send_email_sendgrid     *)
(* returned true or, that having returned false, send_email_smtp returned  *)
(* true: its conversation was accepted, or it had no credentials to start  *)
(* one.                                                                    *)

C25_SendGridThenSmtp ==
    [][ IssueStep =>
          LET calls == notifier'
              sendgrid_took == \E i \in DOMAIN calls :
                                  calls[i].provider = "sendgrid" /\ calls[i].accepted
              smtp_took == \E i \in DOMAIN calls :
                              calls[i].provider = "smtp" /\ calls[i].accepted
              smtp_idle == \A i \in DOMAIN calls : calls[i].provider # "smtp"
          IN
          /\ \A i \in DOMAIN calls : calls[i].provider = "sendgrid" => i = 1
          /\ \A i \in DOMAIN calls : calls[i].provider = "smtp" => i = Len(calls)
          /\ Len(calls) <= 2
          /\ ~smtp_idle => ~sendgrid_took
          /\ Cardinality({i \in DOMAIN calls : calls[i].accepted}) <= 1
          /\ (req'.op = "send_otp" /\ issued' # issued) =>
                ("demo_otp" \notin DOMAIN resp'.body
                   <=> \/ sendgrid_took
                       \/ smtp_took
                       \/ ~sendgrid_took /\ smtp_idle)
      ]_vars

\* refused by SendGrid, taken by SMTP, reported as sent
C25_Witness ==
    /\ req.op = "send_otp"
    /\ Len(notifier) = 2
    /\ notifier[1] = [provider |-> "sendgrid", accepted |-> FALSE]
    /\ notifier[2] = [provider |-> "smtp", accepted |-> TRUE]
    /\ "success" \in DOMAIN resp.body
    /\ "demo_otp" \notin DOMAIN resp.body

-----------------------------------------------------------------------------
(* C26: for every integer headcount get_plan_costs picks the band that     *)
(* contains it, picks 501-1000 without containing it only when the         *)
(* headcount exceeds 1000, and picks the band whose label                  *)
(* get_plan_details_by_headcount picks for that headcount.                 *)

\* the label of a band, as the configuration writes it
range_label(r) == Str(r[1]) \o <<"-">> \o Str(r[2])

C26_SameBand ==
    [][ req'.op = "get_plan_costs" =>
          LET h == req'.headcount
              picked == resp'.body.selected_range
          IN
          /\ \/ picked[1] <= h /\ h <= picked[2]
             \/ picked = <<501, 1000>> /\ h > 1000
          /\ range_label(picked) = headcount_range(h)
      ]_vars

\* a negative headcount, priced by the highest band
C26_Witness ==
    /\ req.op = "get_plan_costs"
    /\ req.headcount = -1
    /\ resp.body.selected_range = <<501, 1000>>
    /\ headcount_range(req.headcount) = <<"0","-","5","0">>


-----------------------------------------------------------------------------
(* C27: an e-mail gains a verified entry in the session (or has its entry  *)
(* rewritten) only in a step in which a verify-otp request with that       *)
(* e-mail was answered Success; no issuance, no failed, expired or         *)
(* exhausted verify and no other request writes an entry.                  *)

C27_EntryOnlyBySuccess ==
    [][ \A e \in DOMAIN Registry(session') :
            (e \notin DOMAIN Registry(session) \/ Registry(session')[e] # Registry(session)[e])
                => /\ VerifyStep
                   /\ req'.email = e
                   /\ Outcome(resp') = "Success" ]_vars

\* a verify-otp request answered 500 left an entry for its e-mail in the session
C27_Witness ==
    /\ req.op = "verify_otp"
    /\ resp = internal_server_error
    /\ req.email \in DOMAIN Registry(session)


-----------------------------------------------------------------------------
(* C28: a /api/send-otp response carries the code (field demo_otp) exactly *)
(* when the request stored a record and send_email reported failure, and   *)
(* then it is the code of the record just stored; every other response     *)
(* (delivery reported successful, missing field, already verified) is made *)
(* of fixed text only.                                                     *)

\* send_email returned False: its last provider call was SMTP and it failed
DeliveryFailed(calls) ==
    /\ calls # <<>>
    /\ calls[Len(calls)].provider = "smtp"
    /\ ~calls[Len(calls)].accepted

C28_CodeOnlyAfterFailedDelivery ==
    [][ req'.op = "send_otp" =>
          LET body == resp'.body IN
          /\ "demo_otp" \in DOMAIN body <=> (issued' # issued /\ DeliveryFailed(notifier'))
          /\ "demo_otp" \in DOMAIN body =>
                /\ body.demo_otp = otp_storage'[session'["otp_id"]].otp
                /\ DOMAIN body = {"success", "message", "demo_otp"}
                /\ body.message = "OTP generated (check console for development)"
          /\ "demo_otp" \notin DOMAIN body =>
                \/ /\ DOMAIN body = {"success", "message"}
                   /\ body.message = "OTP sent successfully to your email"
                \/ /\ DOMAIN body = {"already_verified", "message"}
                   /\ body.message = "Email is already verified. Proceeding to calculation..."
                \/ /\ DOMAIN body = {"error"}
                   /\ body.error = <<"Email and organization name are required">>
      ]_vars

\* both providers failed and the response shows the code that was stored
C28_Witness ==
    /\ req.op = "send_otp"
    /\ DeliveryFailed(notifier)
    /\ "demo_otp" \in DOMAIN resp.body
    /\ resp.body.demo_otp = otp_storage[session["otp_id"]].otp


-----------------------------------------------------------------------------
(* C29: a serverless verify-otp call that submits an e-mail and the code   *)
(* the serverless send-otp stored for that e-mail, at most 10 minutes      *)
(* after it was stored, is answered 200 with verified = true.              *)

C29_IssuedCodeVerifies ==
    [][ (/\ req'.op = "fn_verify_otp"
         /\ req'.email \in DOMAIN fn_send_otp_storage
         /\ req'.otp = fn_send_otp_storage[req'.email].otp
         /\ now - fn_send_otp_storage[req'.email].timestamp <= FN_OTP_TTL) =>
          /\ resp'.status = 200
          /\ resp'.body.verified = TRUE
      ]_vars

\* the stored code, submitted in time, answered 'OTP not found or expired'
C29_Witness ==
    /\ req.op = "fn_verify_otp"
    /\ req.email \in DOMAIN fn_send_otp_storage
    /\ req.otp = fn_send_otp_storage[req.email].otp
    /\ now - fn_send_otp_storage[req.email].timestamp <= FN_OTP_TTL
    /\ resp.status = 400
    /\ resp.body.error = <<"OTP not found or expired">>


-----------------------------------------------------------------------------
(* C30: after every log_visit call each user's visit_count and             *)
(* total_calculations equal the number of that user's user_visits rows; a  *)
(* call without a user_id returns None and writes nothing; a call that     *)
(* raises returns None and leaves both tables as they were; a call that    *)
(* succeeds adds one row and returns its id.                               *)

\* the user_visits rows of one user
VisitsOf(visits, user_id) == { i \in DOMAIN visits : visits[i].user_id = user_id }

StatsMatchVisits(visits, stats) ==
    /\ \A i \in DOMAIN visits : visits[i].user_id \in DOMAIN stats
    /\ \A u \in DOMAIN stats :
          /\ stats[u].visit_count = Cardinality(VisitsOf(visits, u))
          /\ stats[u].total_calculations = Cardinality(VisitsOf(visits, u))

C30_StatsCountVisits ==
    [][ req'.op \in {"log_visit", "visits_tracker_log_visit"} =>
          LET user_id == DictGet(req'.user_data, "user_id", <<>>)
              returned == resp'.body.returned
          IN
          /\ StatsMatchVisits(user_visits', user_stats')
          /\ user_id = <<>> => (returned = NoVisit /\ UNCHANGED visits_db)
          /\ (user_id # <<>> /\ req'.fault # "none") =>
                (returned = NoVisit /\ UNCHANGED visits_db)
          /\ (user_id # <<>> /\ req'.fault = "none") =>
                /\ returned = Len(user_visits) + 1
                /\ Len(user_visits') = Len(user_visits) + 1
                /\ user_visits'[returned].user_id = user_id
                /\ \A i \in DOMAIN user_visits : user_visits'[i] = user_visits[i]
      ]_vars

\* a call that raised at the commit, after two visits of the user were logged
C30_Witness ==
    /\ req.op = "log_visit"
    /\ req.fault = "commit"
    /\ req.user_data = [user_id |-> EmailU]
    /\ resp.body.returned = NoVisit
    /\ Cardinality(VisitsOf(user_visits, EmailU)) = 2
    /\ user_stats[EmailU].visit_count = 2
    /\ EmailV \in DOMAIN user_stats

====
